---- MODULE Spec2Model ----
(***************************************************************************)
(* Model of anki_card_generator.py: the pipeline                           *)
(*   credential check -> one chat-completion request -> json.loads and     *)
(*   card extraction -> csv.DictWriter.writerows -> example print.         *)
(*                                                                         *)
(* A reply text is a sequence of lexemes (tokens); json.loads is a         *)
(* recursive-descent parser over them and json.dumps the serializer.       *)
(* A JSON value is a record [t, s, a, ks]: t the type tag, s the scalar    *)
(* text, a the array elements (or the object's values, in insertion        *)
(* order) and ks the object's keys.                                        *)
(***************************************************************************)
EXTENDS Integers, Sequences, FiniteSets, TLC

VARIABLES pc, caller, argKey, envKey, requests, sent, response_text,
          cards, file, file0, writable, opens, wi, out

vars == <<pc, caller, argKey, envKey, requests, sent, response_text,
          cards, file, file0, writable, opens, wi, out>>

\* Longest card array the remote generator sends / a direct caller passes.
MaxCards == 2

(***************************************************************************)
(* JSON values                                                             *)
(***************************************************************************)
JNull == [t |-> "null", s |-> "null", a |-> <<>>, ks |-> <<>>]

JBool(b) == [t |-> "bool", s |-> IF b THEN "true" ELSE "false", a |-> <<>>, ks |-> <<>>]

JNum(n) == [t |-> "num", s |-> n, a |-> <<>>, ks |-> <<>>]

JStr(x) == [t |-> "str", s |-> x, a |-> <<>>, ks |-> <<>>]

JArr(xs) == [t |-> "arr", s |-> "", a |-> xs, ks |-> <<>>]

JObj(keys, vals) == [t |-> "obj", s |-> "", a |-> vals, ks |-> keys]

EmptyArr == JArr(<<>>)

\* `key in d` for a dict d
HasKey(d, k) == \E i \in 1..Len(d.ks) : d.ks[i] = k

\* d[key]
Get(d, k) == d.a[CHOOSE i \in 1..Len(d.ks) : d.ks[i] = k]

\* d[key] = v while a dict is built: a repeated key keeps its position and
\* takes the last value
DictSet(d, k, v) ==
    IF HasKey(d, k)
    THEN JObj(d.ks, [i \in 1..Len(d.a) |-> IF d.ks[i] = k THEN v ELSE d.a[i]])
    ELSE JObj(Append(d.ks, k), Append(d.a, v))

\* Python truth value of a decoded JSON value (`if cards`, `not cards`)
Truthy(v) ==
    CASE v.t = "null" -> FALSE
      [] v.t = "bool" -> v.s = "true"
      [] v.t = "num"  -> v.s # "0"
      [] v.t = "str"  -> v.s # ""
      [] OTHER        -> Len(v.a) > 0

(***************************************************************************)
(* Lexemes of a reply text                                                 *)
(***************************************************************************)
Punct(c) == [k |-> "punct", s |-> c]

StrTok(x) == [k |-> "str", s |-> x]

NumTok(n) == [k |-> "num", s |-> n]

LitTok(x) == [k |-> "lit", s |-> x]

Word(x) == [k |-> "word", s |-> x]

(***************************************************************************)
(* json.dumps                                                              *)
(***************************************************************************)
RECURSIVE Dumps(_)
RECURSIVE DumpsElems(_, _)
RECURSIVE DumpsMembers(_, _)

DumpsElems(v, i) ==
    IF i > Len(v.a) THEN <<>>
    ELSE (IF i > 1 THEN <<Punct(",")>> ELSE <<>>) \o Dumps(v.a[i]) \o DumpsElems(v, i + 1)

DumpsMembers(v, i) ==
    IF i > Len(v.a) THEN <<>>
    ELSE (IF i > 1 THEN <<Punct(",")>> ELSE <<>>)
         \o <<StrTok(v.ks[i]), Punct(":")>> \o Dumps(v.a[i]) \o DumpsMembers(v, i + 1)

Dumps(v) ==
    CASE v.t = "null" -> <<LitTok("null")>>
      [] v.t = "bool" -> <<LitTok(v.s)>>
      [] v.t = "num"  -> <<NumTok(v.s)>>
      [] v.t = "str"  -> <<StrTok(v.s)>>
      [] v.t = "arr"  -> <<Punct("[")>> \o DumpsElems(v, 1) \o <<Punct("]")>>
      [] OTHER        -> <<Punct("{")>> \o DumpsMembers(v, 1) \o <<Punct("}")>>

(***************************************************************************)
(* json.loads                                                              *)
(***************************************************************************)
ParseFail == [ok |-> FALSE, v |-> JNull, n |-> 0]

ParseOk(v, n) == [ok |-> TRUE, v |-> v, n |-> n]

IsTok(txt, i, tk) == i <= Len(txt) /\ txt[i] = tk

RECURSIVE ParseValue(_, _)
RECURSIVE ParseElems(_, _, _)
RECURSIVE ParseMembers(_, _, _)

\* the elements of an array from position i on, acc the elements so far
ParseElems(txt, i, acc) ==
    LET r == ParseValue(txt, i) IN
    IF ~r.ok THEN ParseFail
    ELSE IF IsTok(txt, r.n, Punct(",")) THEN ParseElems(txt, r.n + 1, Append(acc, r.v))
    ELSE IF IsTok(txt, r.n, Punct("]")) THEN ParseOk(JArr(Append(acc, r.v)), r.n + 1)
    ELSE ParseFail

\* the members of an object from position i on, d the dict so far
ParseMembers(txt, i, d) ==
    IF ~(i + 1 <= Len(txt) /\ txt[i].k = "str" /\ txt[i + 1] = Punct(":")) THEN ParseFail
    ELSE LET r == ParseValue(txt, i + 2) IN
         IF ~r.ok THEN ParseFail
         ELSE IF IsTok(txt, r.n, Punct(","))
              THEN ParseMembers(txt, r.n + 1, DictSet(d, txt[i].s, r.v))
         ELSE IF IsTok(txt, r.n, Punct("}"))
              THEN ParseOk(DictSet(d, txt[i].s, r.v), r.n + 1)
         ELSE ParseFail

ParseValue(txt, i) ==
    IF i > Len(txt) THEN ParseFail
    ELSE LET tk == txt[i] IN
         CASE tk.k = "str" -> ParseOk(JStr(tk.s), i + 1)
           [] tk.k = "num" -> ParseOk(JNum(tk.s), i + 1)
           [] tk.k = "lit" -> ParseOk(IF tk.s = "null" THEN JNull ELSE JBool(tk.s = "true"), i + 1)
           [] tk = Punct("[") ->
                IF IsTok(txt, i + 1, Punct("]")) THEN ParseOk(EmptyArr, i + 2)
                ELSE ParseElems(txt, i + 1, <<>>)
           [] tk = Punct("{") ->
                IF IsTok(txt, i + 1, Punct("}")) THEN ParseOk(JObj(<<>>, <<>>), i + 2)
                ELSE ParseMembers(txt, i + 1, JObj(<<>>, <<>>))
           [] OTHER -> ParseFail

\* json.loads(text): ok = FALSE stands for the raised JSONDecodeError
\* (empty text, malformed text, or extra data after the value)
JsonLoads(txt) ==
    LET r == ParseValue(txt, 1) IN
    IF r.ok /\ r.n = Len(txt) + 1 THEN r ELSE ParseFail

(***************************************************************************)
(* Printed messages                                                        *)
(***************************************************************************)
Msg(m, n) == [m |-> m, n |-> n]

MsgKeyRequired == Msg("Error: API key is required", 0)

MsgUnexpected == Msg("Unexpected response format. Attempting to extract cards...", 0)

MsgCouldNot == Msg("Error: Could not extract cards from API response", 0)

MsgErrGen == Msg("Error generating cards", 0)

MsgNoCards == Msg("No cards to save", 0)

MsgErrSave == Msg("Error saving to CSV", 0)

MsgSaved(n) == Msg("Successfully saved cards", n)

MsgExample == Msg("Example card", 0)

(***************************************************************************)
(* generate_cards, from json.loads on                                      *)
(***************************************************************************)
LooksLikeCards(value) ==
    /\ value.t = "arr"
    /\ Len(value.a) > 0
    /\ value.a[1].t = "obj"
    /\ HasKey(value.a[1], "expression")

\* the substring from the first '[' to the last ']' inclusive (<<>> if none)
BracketSubstring(txt) ==
    LET opens_ == {i \in 1..Len(txt) : txt[i] = Punct("[")}
        closes == {i \in 1..Len(txt) : txt[i] = Punct("]")}
    IN  IF opens_ = {} \/ closes = {} THEN <<>>
        ELSE SubSeq(txt, CHOOSE i \in opens_ : \A j \in opens_ : i <= j,
                         CHOOSE i \in closes : \A j \in closes : i >= j)

\* whether that substring is a JSON array
BracketArray(txt) ==
    /\ JsonLoads(BracketSubstring(txt)).ok
    /\ JsonLoads(BracketSubstring(txt)).v.t = "arr"

\* Variant: the except clause retries json.loads on the bracket substring.
ExtractCardsRecovering(txt) ==
    LET r == JsonLoads(txt) IN
    IF ~r.ok
    THEN IF BracketArray(txt)
         THEN [result |-> JsonLoads(BracketSubstring(txt)).v, msgs |-> <<>>]
         ELSE [result |-> EmptyArr, msgs |-> <<MsgErrGen>>]
    ELSE IF r.v.t = "obj" /\ HasKey(r.v, "cards")
    THEN [result |-> Get(r.v, "cards"), msgs |-> <<>>]
    ELSE IF r.v.t = "arr" THEN [result |-> r.v, msgs |-> <<>>]
    ELSE [result |-> EmptyArr, msgs |-> <<MsgUnexpected, MsgCouldNot>>]

\* Variant: the "cards" branch is missing, every mapping goes to the scan
\* for an array whose first element has an "expression" field.
ExtractCardsScanOnly(txt) ==
    LET r == JsonLoads(txt) IN
    IF ~r.ok THEN [result |-> EmptyArr, msgs |-> <<MsgErrGen>>]
    ELSE IF r.v.t = "arr" THEN [result |-> r.v, msgs |-> <<>>]
    ELSE IF r.v.t # "obj" THEN [result |-> EmptyArr, msgs |-> <<MsgUnexpected, MsgErrGen>>]
    ELSE LET hits == {i \in 1..Len(r.v.a) : LooksLikeCards(r.v.a[i])} IN
         IF hits # {}
         THEN [result |-> r.v.a[CHOOSE i \in hits : \A j \in hits : i <= j],
               msgs |-> <<MsgUnexpected>>]
         ELSE [result |-> EmptyArr, msgs |-> <<MsgUnexpected, MsgCouldNot>>]

\* The value generate_cards returns for a reply text, and what it prints.
ExtractCards(txt) ==
    LET r == JsonLoads(txt) IN
    IF ~r.ok THEN [result |-> EmptyArr, msgs |-> <<MsgErrGen>>]
    ELSE LET parsed_response == r.v IN
         IF parsed_response.t = "obj" /\ HasKey(parsed_response, "cards")
         THEN [result |-> Get(parsed_response, "cards"), msgs |-> <<>>]
         ELSE IF parsed_response.t = "arr"
         THEN [result |-> parsed_response, msgs |-> <<>>]
         ELSE IF parsed_response.t # "obj"
         \* .items() of a str, number, bool or None: AttributeError, caught
         THEN [result |-> EmptyArr, msgs |-> <<MsgUnexpected, MsgErrGen>>]
         ELSE LET hits == {i \in 1..Len(parsed_response.a) :
                              LooksLikeCards(parsed_response.a[i])} IN
              IF hits # {}
              THEN [result |-> parsed_response.a[CHOOSE i \in hits : \A j \in hits : i <= j],
                    msgs |-> <<MsgUnexpected>>]
              ELSE [result |-> EmptyArr, msgs |-> <<MsgUnexpected, MsgCouldNot>>]

(***************************************************************************)
(* save_to_csv                                                             *)
(***************************************************************************)
fieldnames == <<"expression", "context", "meaning", "literal", "usage",
                "translation", "notes", "cefr_level">>

\* The text csv writes for a cell: None as the empty string, str(value) else.
CellText(v) ==
    CASE v.t = "null" -> ""
      [] v.t = "bool" -> IF v.s = "true" THEN "True" ELSE "False"
      [] v.t \in {"num", "str"} -> v.s
      [] OTHER -> "<repr>"

\* DictWriter._dict_to_list raises for a row that is not a mapping
\* (AttributeError) or has a key outside fieldnames (ValueError).
RowAccepted(item) ==
    /\ item.t = "obj"
    /\ \A i \in 1..Len(item.ks) : \E j \in 1..Len(fieldnames) : fieldnames[j] = item.ks[i]

\* Variant: a missing key is written as str(None).
DictToListNone(item) ==
    [j \in 1..Len(fieldnames) |->
        IF HasKey(item, fieldnames[j]) THEN CellText(Get(item, fieldnames[j])) ELSE "None"]

\* the row of an accepted mapping: restval '' for a missing key
DictToList(item) ==
    [j \in 1..Len(fieldnames) |->
        IF HasKey(item, fieldnames[j]) THEN CellText(Get(item, fieldnames[j])) ELSE ""]

\* whether writerows can iterate over its argument at all
Iterable(v) == v.t \in {"arr", "obj", "str"}

\* what iterating yields: the elements of a list, the keys of a dict, the
\* characters of a str (one stands for all: each is a str)
IterItems(v) ==
    CASE v.t = "arr" -> v.a
      [] v.t = "obj" -> [i \in 1..Len(v.ks) |-> JStr(v.ks[i])]
      [] v.t = "str" -> <<JStr(v.s)>>
      [] OTHER -> <<>>

\* cards[0] at the example print: a list or a non-empty str can be indexed,
\* a dict raises KeyError, a number or bool TypeError
Indexable(v) ==
    \/ v.t = "arr" /\ Len(v.a) > 0
    \/ v.t = "str" /\ v.s # ""

AbsentFile == [exists |-> FALSE, rows |-> <<>>]

OldRow == [j \in 1..Len(fieldnames) |-> "old"]

ExistingFile == [exists |-> TRUE, rows |-> <<OldRow>>]

(***************************************************************************)
(* Inputs: what the remote generator may send                              *)
(***************************************************************************)
CardFull ==
    JObj(fieldnames, [j \in 1..Len(fieldnames) |-> JStr("v")])

CardShort == JObj(<<"expression", "context">>, <<JStr("x"), JStr("y")>>)

CardAudio == JObj(<<"expression", "audio_url">>, <<JStr("x"), JStr("u")>>)

CardNoExpr == JObj(<<"context">>, <<JStr("y")>>)

CardNullLiteral == JObj(<<"expression", "literal">>, <<JStr("x"), JNull>>)

Elements == {CardFull, CardShort, CardAudio, CardNoExpr, CardNullLiteral, JNum("5")}

SeqsUpTo(S, n) == UNION {[1..m -> S] : m \in 0..n}

Arrays == {JArr(xs) : xs \in SeqsUpTo(Elements, MaxCards)}

ShortArrays == {JArr(xs) : xs \in SeqsUpTo({CardShort, CardNoExpr}, 1)}

Scalars == {JStr("hello"), JStr(""), JNum("5"), JNum("0"), JNull, JBool(TRUE), JBool(FALSE)}

Payloads == Arrays \cup Scalars \cup {JObj(<<>>, <<>>), CardShort}

Mappings ==
    {JObj(<<"cards">>, <<p>>) : p \in Payloads}
    \cup {JObj(<<"items">>, <<p>>) : p \in Payloads}
    \cup {JObj(<<"cards", "items">>, <<p, q>>) :
             p \in {JNum("5"), JStr("hello"), EmptyArr, JArr(<<CardNoExpr>>)}, q \in ShortArrays}
    \cup {JObj(<<"note", "items">>, <<JStr("hello"), q>>) : q \in ShortArrays}
    \cup {JObj(<<"first", "second">>, <<p, q>>) : p \in ShortArrays, q \in ShortArrays}

Values == Arrays \cup Scalars \cup Mappings

\* how the generator renders what it means to send
Forms == {"exact", "prose_around", "prose_after", "truncated", "repeated_key"}

Replies ==
    {[intent |-> v, form |-> "exact"] : v \in Values}
    \cup {[intent |-> v, form |-> f] : v \in Arrays, f \in Forms \ {"exact"}}
    \cup {[intent |-> v, form |-> "truncated"] : v \in Mappings}
    \cup {[intent |-> JNull, form |-> f] : f \in {"refusal", "empty"}}

NoReply == [intent |-> JNull, form |-> "none"]

Render(r) ==
    CASE r.form = "exact" -> Dumps(r.intent)
      [] r.form = "prose_around" ->
            <<Word("Sure!")>> \o Dumps(r.intent) \o <<Word("Hope"), Word("that"), Word("helps.")>>
      [] r.form = "prose_after" -> Dumps(r.intent) \o <<Word("Done.")>>
      [] r.form = "truncated" -> SubSeq(Dumps(r.intent), 1, Len(Dumps(r.intent)) - 1)
      [] r.form = "repeated_key" ->
            <<Punct("{"), StrTok("cards"), Punct(":"), NumTok("5"), Punct(","),
              StrTok("cards"), Punct(":")>> \o Dumps(r.intent) \o <<Punct("}")>>
      [] r.form = "refusal" -> <<Word("I"), Word("cannot"), Word("help"), Word("with"), Word("that.")>>
      [] OTHER -> <<>>

\* response_text while it is not bound ('response_text' not in locals())
Unbound == [bound |-> FALSE, txt |-> <<>>]

Bound(txt) == [bound |-> TRUE, txt |-> txt]

(***************************************************************************)
(* Initial states                                                          *)
(***************************************************************************)
\* a run of main(): args.api_key is None ("") or a key, the environment
\* variable is unset, set to the empty string, or set to a key
InitMain ==
    /\ caller = "main"
    /\ pc = "main"
    /\ argKey \in {"", "sk-arg"}
    /\ envKey \in {"unset", "", "sk-env"}
    /\ cards = EmptyArr

\* a direct call save_to_csv(cards, filename) with a list of records
InitDirect ==
    /\ caller = "direct"
    /\ pc = "save"
    /\ argKey = ""
    /\ envKey = "unset"
    /\ cards \in Arrays

Init ==
    /\ InitMain \/ InitDirect
    /\ requests = 0
    /\ sent = NoReply
    /\ response_text = Unbound
    /\ file0 \in {AbsentFile, ExistingFile}
    /\ file = file0
    /\ writable \in BOOLEAN
    /\ opens = 0
    /\ wi = 0
    /\ out = <<>>

(***************************************************************************)
(* main                                                                    *)
(***************************************************************************)
\* args.api_key or os.environ.get('DEEPSEEK_API_KEY')
api_key == IF argKey # "" THEN argKey ELSE IF envKey = "unset" THEN "" ELSE envKey

\* Variant: `if api_key is None`, an empty string passes.
KeyMissingIsNone == argKey = "" /\ envKey = "unset"

\* `if not api_key`
KeyMissing == api_key = ""

CheckCredential ==
    /\ pc = "main"
    /\ IF KeyMissing
       THEN /\ out' = Append(out, MsgKeyRequired)
            /\ pc' = "done"
       ELSE /\ out' = out
            /\ pc' = "request"
    /\ UNCHANGED <<caller, argKey, envKey, requests, sent, response_text,
                   cards, file, file0, writable, opens, wi>>

\* Variant: a failed call is tried once more.
RequestFailsRetry ==
    /\ pc = "request"
    /\ requests' = requests + 1
    /\ IF requests = 0
       THEN UNCHANGED <<pc, cards, out>>
       ELSE /\ cards' = EmptyArr
            /\ out' = Append(out, MsgErrGen)
            /\ pc' = "gate"
    /\ UNCHANGED <<caller, argKey, envKey, sent, response_text, file, file0,
                   writable, opens, wi>>

\* client.chat.completions.create raises: transport, authentication or
\* rate-limit failure; the except clause returns []
RequestFails ==
    /\ pc = "request"
    /\ requests' = requests + 1
    /\ cards' = EmptyArr
    /\ out' = Append(out, MsgErrGen)
    /\ pc' = "gate"
    /\ UNCHANGED <<caller, argKey, envKey, sent, response_text, file, file0,
                   writable, opens, wi>>

\* the call returns a message without content: json.loads(None) raises
\* TypeError, the except clause returns []
RequestNoContent ==
    /\ pc = "request"
    /\ requests' = requests + 1
    /\ response_text' = Bound(<<>>)
    /\ cards' = EmptyArr
    /\ out' = Append(out, MsgErrGen)
    /\ pc' = "gate"
    /\ UNCHANGED <<caller, argKey, envKey, sent, file, file0, writable, opens, wi>>

\* the call returns a reply text
RequestReplies ==
    /\ pc = "request"
    /\ requests' = requests + 1
    /\ \E r \in Replies :
          /\ sent' = r
          /\ response_text' = Bound(Render(r))
    /\ pc' = "extract"
    /\ UNCHANGED <<caller, argKey, envKey, cards, file, file0, writable, opens, wi, out>>

\* json.loads and the extraction of the cards; generate_cards returns
Extract ==
    /\ pc = "extract"
    /\ LET e == ExtractCards(response_text.txt) IN
          /\ cards' = e.result
          /\ out' = out \o e.msgs
    /\ pc' = "gate"
    /\ UNCHANGED <<caller, argKey, envKey, requests, sent, response_text,
                   file, file0, writable, opens, wi>>

\* `if cards:` in main
Gate ==
    /\ pc = "gate"
    /\ pc' = IF Truthy(cards) THEN "save" ELSE "done"
    /\ UNCHANGED <<caller, argKey, envKey, requests, sent, response_text,
                   cards, file, file0, writable, opens, wi, out>>

\* where save_to_csv returns to
AfterSave == IF caller = "main" THEN "example" ELSE "done"

\* Variant: the `if not cards` check is missing.
SaveOpenUnchecked ==
    /\ pc = "save"
    /\ opens' = opens + 1
    /\ IF writable
       THEN /\ file' = [exists |-> TRUE, rows |-> <<>>]
            /\ wi' = 1
            /\ out' = out
            /\ pc' = "write"
       ELSE /\ out' = Append(out, MsgErrSave)
            /\ pc' = AfterSave
            /\ UNCHANGED <<file, wi>>
    /\ UNCHANGED <<caller, argKey, envKey, requests, sent, response_text,
                   cards, file0, writable>>

\* save_to_csv up to open(filename, 'w'): nothing to save, or the file is
\* opened (created or truncated), or open raises
SaveOpen ==
    /\ pc = "save"
    /\ IF ~Truthy(cards)
       THEN /\ out' = Append(out, MsgNoCards)
            /\ pc' = AfterSave
            /\ UNCHANGED <<file, opens, wi>>
       ELSE /\ opens' = opens + 1
            /\ IF writable
               THEN /\ file' = [exists |-> TRUE, rows |-> <<>>]
                    /\ wi' = 1
                    /\ out' = out
                    /\ pc' = "write"
               ELSE /\ out' = Append(out, MsgErrSave)
                    /\ pc' = AfterSave
                    /\ UNCHANGED <<file, wi>>
    /\ UNCHANGED <<caller, argKey, envKey, requests, sent, response_text,
                   cards, file0, writable>>

\* writer.writerows(cards), one item per step: the row is written, or the
\* item is rejected and the with block closes the file with the rows so far
WriteRow ==
    /\ pc = "write"
    /\ Iterable(cards)
    /\ wi <= Len(IterItems(cards))
    /\ LET item == IterItems(cards)[wi] IN
       IF RowAccepted(item)
       THEN /\ file' = [file EXCEPT !.rows = Append(@, DictToList(item))]
            /\ wi' = wi + 1
            /\ UNCHANGED <<pc, out>>
       ELSE /\ out' = Append(out, MsgErrSave)
            /\ pc' = AfterSave
            /\ UNCHANGED <<file, wi>>
    /\ UNCHANGED <<caller, argKey, envKey, requests, sent, response_text,
                   cards, file0, writable, opens>>

\* writerows ends: every item written (success message with len(cards)),
\* or the argument is not iterable at all (TypeError, caught)
WriteEnd ==
    /\ pc = "write"
    /\ IF Iterable(cards)
       THEN /\ wi > Len(IterItems(cards))
            /\ out' = Append(out, MsgSaved(Len(cards.a)))
       ELSE /\ out' = Append(out, MsgErrSave)
    /\ pc' = AfterSave
    /\ UNCHANGED <<caller, argKey, envKey, requests, sent, response_text,
                   cards, file, file0, writable, opens, wi>>

\* print(f"Example card: {json.dumps(cards[0], ...)}"): not in a try block
PrintExample ==
    /\ pc = "example"
    /\ IF Indexable(cards)
       THEN /\ out' = Append(out, MsgExample)
            /\ pc' = "done"
       ELSE /\ out' = out
            /\ pc' = "raised"
    /\ UNCHANGED <<caller, argKey, envKey, requests, sent, response_text,
                   cards, file, file0, writable, opens, wi>>

Next ==
    \/ CheckCredential
    \/ RequestFails
    \/ RequestNoContent
    \/ RequestReplies
    \/ Extract
    \/ Gate
    \/ SaveOpen
    \/ WriteRow
    \/ WriteEnd
    \/ PrintExample

Spec == Init /\ [][Next]_vars

TypeOK ==
    /\ pc \in {"main", "request", "extract", "gate", "save", "write", "example", "done", "raised"}
    /\ caller \in {"main", "direct"}
    /\ requests \in 0..1
    /\ opens \in 0..1
(***************************************************************************)
(* Properties                                                              *)
(***************************************************************************)
\* generate_cards has returned to main
Returned == caller = "main" /\ pc \in {"gate", "save", "write", "example", "done", "raised"}

\* generate_cards has returned for a reply text that arrived
ReturnedReply == Returned /\ sent.form # "none" /\ response_text.bound

\* the run is over
Ended == pc \in {"done", "raised"}

InOut(m) == \E i \in 1..Len(out) : out[i] = m

\* the reply holds a JSON array some attempt of the extractor could deliver:
\* the text is an array, a mapping with an array-valued entry, or has an
\* array between its first '[' and last ']'
Coercible(txt) ==
    \/ JsonLoads(txt).ok /\ JsonLoads(txt).v.t = "arr"
    \/ /\ JsonLoads(txt).ok
       /\ JsonLoads(txt).v.t = "obj"
       /\ \E i \in 1..Len(JsonLoads(txt).v.a) : JsonLoads(txt).v.a[i].t = "arr"
    \/ BracketArray(txt)

\* C1: generate_cards returns an empty sequence whenever the reply cannot be
\* coerced into a card array (and when the remote call failed). The second
\* conjunct asks even less than the claim: a result main takes for no cards.
C1_EmptyWhenNotCoercible ==
    /\ (Returned /\ sent.form = "none") => cards = EmptyArr
    /\ (ReturnedReply /\ ~Coercible(response_text.txt)) => ~Truthy(cards)

\* C2: no exception escapes main, whatever the credential, the outcome of
\* the remote call and the reply text.
C2_NothingEscapes == pc # "raised"

\* the text parses to one of the two shapes the extractor takes directly
DirectShape(txt) ==
    /\ JsonLoads(txt).ok
    /\ \/ JsonLoads(txt).v.t = "arr"
       \/ JsonLoads(txt).v.t = "obj" /\ HasKey(JsonLoads(txt).v, "cards")
       \/ /\ JsonLoads(txt).v.t = "obj"
          /\ \E i \in 1..Len(JsonLoads(txt).v.a) : LooksLikeCards(JsonLoads(txt).v.a[i])

\* C3 as stated: when the full text is not valid JSON (or parses to neither
\* accepted shape) and the substring from the first '[' to the last ']' is a
\* JSON array, the extractor returns that array.
C3_BracketRecovery ==
    (ReturnedReply /\ ~DirectShape(response_text.txt) /\ BracketArray(response_text.txt))
        => cards = JsonLoads(BracketSubstring(response_text.txt)).v

\* C3 amended: there is no bracket-substring attempt. A reply that is not
\* valid JSON, or that parses to neither accepted shape, yields the empty
\* sequence and a diagnostic, also when the text between its first '[' and
\* last ']' is a JSON array.
C3_NoBracketRecovery ==
    (ReturnedReply /\ ~DirectShape(response_text.txt))
        => /\ cards = EmptyArr
           /\ InOut(MsgErrGen) \/ InOut(MsgCouldNot)

C3_Witness ==
    /\ ReturnedReply
    /\ sent = [intent |-> JArr(<<CardShort>>), form |-> "prose_around"]
    /\ BracketArray(response_text.txt)
    /\ JsonLoads(BracketSubstring(response_text.txt)).v = JArr(<<CardShort>>)
    /\ cards = EmptyArr

\* C4: a reply that is exactly the serialization of {"cards": A} or of the
\* bare array A makes the extractor return A: same length, same order, every
\* element unchanged.
C4_RoundTrip ==
    (ReturnedReply /\ sent.form = "exact" /\ response_text.txt = Dumps(sent.intent))
        => /\ sent.intent.t = "arr" => cards = sent.intent
           /\ (sent.intent.t = "obj" /\ sent.intent.ks = <<"cards">> /\ sent.intent.a[1].t = "arr")
                 => cards = sent.intent.a[1]

C4_Witness ==
    /\ ReturnedReply
    /\ response_text.txt = Dumps(JObj(<<"cards">>, <<JArr(<<CardNoExpr, CardFull>>)>>))
    /\ cards = JArr(<<CardNoExpr, CardFull>>)

\* C5: every non-empty value the extractor returns is a JSON array, and for
\* a mapping with an entry that is an array whose first element has an
\* "expression" field the extractor returns such an entry of the mapping.
C5_ReturnsCardArray ==
    ReturnedReply =>
        /\ Truthy(cards) => cards.t = "arr"
        /\ LET r == JsonLoads(response_text.txt) IN
           (r.ok /\ r.v.t = "obj" /\ \E i \in 1..Len(r.v.a) : LooksLikeCards(r.v.a[i]))
              => /\ LooksLikeCards(cards)
                 /\ \E i \in 1..Len(r.v.a) : r.v.a[i] = cards

C7_NoPartialFile ==
    (caller = "main" /\ Ended) =>
        \/ file = file0
        \/ /\ file.exists
           /\ cards.t = "arr"
           /\ Len(file.rows) = Len(cards.a)

\* one cell of the expected row: the field's text, empty for a missing field
Field(card, name) == IF HasKey(card, name) THEN CellText(Get(card, name)) ELSE ""

\* the record schema of the specification: the eight fields and the
\* pronunciation-audio URL
CardSchema == fieldnames \o <<"audio_url">>

\* every element is a mapping whose keys are among the eight columns
PlainCards(v) ==
    /\ v.t = "arr"
    /\ Len(v.a) > 0
    /\ \A i \in 1..Len(v.a) :
          /\ v.a[i].t = "obj"
          /\ \A j \in 1..Len(v.a[i].ks) :
                v.a[i].ks[j] \in {"expression", "context", "meaning", "literal", "usage",
                                  "translation", "notes", "cefr_level"}

\* C8 as stated: a successful save leaves one row per card, in order, with a
\* column for every field of the schema, the optional literal translation and
\* audio URL included (empty where the card lacks them).
C8_SchemaColumns ==
    \A n \in 0..Len(cards.a) : InOut(MsgSaved(n)) =>
        /\ n = Len(file.rows)
        /\ file.rows = [i \in 1..Len(cards.a) |->
                           [j \in 1..Len(CardSchema) |-> Field(cards.a[i], CardSchema[j])]]

\* C8 amended: a save of a non-empty sequence of mappings whose keys are
\* among the eight columns to a writable destination succeeds, and a
\* successful save leaves exactly one row per card, in sequence order, no
\* header row, the eight columns expression, context, meaning, literal,
\* usage, translation, notes, cefr_level in this order, an empty cell for
\* each of them the card lacks, and reports the number of rows written.
\* There is no audio URL column.
C8_EightColumns ==
    /\ \A n \in 0..(Len(cards.a) + 1) : InOut(MsgSaved(n)) =>
          /\ n = Len(file.rows)
          /\ n = Len(cards.a)
          /\ file.exists
          /\ file.rows = [i \in 1..Len(cards.a) |->
                            <<Field(cards.a[i], "expression"), Field(cards.a[i], "context"),
                              Field(cards.a[i], "meaning"), Field(cards.a[i], "literal"),
                              Field(cards.a[i], "usage"), Field(cards.a[i], "translation"),
                              Field(cards.a[i], "notes"), Field(cards.a[i], "cefr_level")>>]
    /\ (pc \in {"example", "done", "raised"} /\ writable /\ PlainCards(cards))
          => InOut(MsgSaved(Len(cards.a)))

C8_Witness ==
    /\ pc = "done"
    /\ caller = "main"
    /\ cards = JArr(<<CardShort, CardNullLiteral>>)
    /\ InOut(MsgSaved(2))
    /\ file.rows = << <<"x", "y", "", "", "", "", "", "">>,
                      <<"x", "", "", "", "", "", "", "">> >>

\* C9: without a non-empty credential from --api-key or DEEPSEEK_API_KEY the
\* run makes no request and leaves the output file alone.
C9_NoCredentialNoEffect ==
    (caller = "main" /\ argKey = "" /\ envKey \in {"unset", ""})
        => /\ requests = 0
           /\ opens = 0
           /\ file = file0
           /\ pc \in {"main", "done"}

C9_Witness ==
    /\ caller = "main"
    /\ pc = "done"
    /\ argKey = ""
    /\ envKey = ""
    /\ writable
    /\ requests = 0
    /\ out = <<MsgKeyRequired>>

\* C10: a run makes at most one request and opens the output file at most
\* once, and the file is opened or written only after the request has
\* completed and the cards have been extracted.
C10_SingleAttemptInOrder ==
    caller = "main" =>
        /\ requests <= 1
        /\ opens <= 1
        /\ (opens > 0 \/ file # file0)
              => (requests = 1 /\ pc \in {"write", "example", "done", "raised"})
        /\ pc \in {"main", "request"} => (file = file0 /\ opens = 0 /\ cards = EmptyArr)

C10_Witness ==
    /\ caller = "main"
    /\ pc = "done"
    /\ requests = 1
    /\ opens = 1
    /\ file0 = ExistingFile
    /\ InOut(MsgSaved(1))
    /\ Len(file.rows) = 1

====
